---- MODULE Spec2Model ----
(***************************************************************************)
(* BiasAnalyzer (omnixai/explainers/tabular/agnostic/bias.py): the model   *)
(* bias analyzer for tabular data.  The analyzer caches the dataset, the   *)
(* targets and the batched model predictions at construction; explain      *)
(* splits the rows into two groups by the values of one feature column and *)
(* evaluates the metrics DPL and DI per label.                             *)
(*                                                                         *)
(* Conventions.  Row indices are 0-based as in the source; TLA+ sequences  *)
(* are 1-based, so row i of a sequence s is s[i + 1].  Every number a      *)
(* target, a prediction or a label can be (int or float) is written in     *)
(* units of 1/Unit: the integer k stands for k/Unit, Python's int i is     *)
(* FromInt(i).  Quotients are exact fractions.                             *)
(***************************************************************************)
EXTENDS Integers, Sequences, FiniteSets, TLC

VARIABLES
    ctor,              \* outcome of BiasAnalyzer.__init__: "" before the call, "ok", or the exception
    batch_size,        \* kwargs.get("batch_size", 64) of the constructor call
    mode,              \* self.mode
    data,              \* self.data: the feature columns, column name -> values by row
    predict_function,  \* self.predict_function: row id -> the model's output for that row
    targs,             \* self.targs
    preds,             \* self.preds
    all_labels,        \* self.all_labels
    call               \* the explain call in progress: arguments, locals, printed and returned value

vars == <<ctor, batch_size, mode, data, predict_function, targs, preds, all_labels, call>>

self == <<mode, data, predict_function, targs, preds, all_labels>>

----------------------------------------------------------------------------
\* Bounds of the model.

MaxRows == 2          \* rows of the enumerated training data
MaxListLen == 1       \* length of each of the two feature-value lists of explain
Unit == 2             \* numbers are multiples of 1/Unit

\* Program constants.

DefaultBatchSize == 64     \* kwargs.get("batch_size", 64)
EpsInv == 100000000        \* 1 / 1e-8, the epsilon of _di

FeatValues == {"X", "Y"}
FeatureColumn == "feat"
TargetColumn == "label"
Modes == {"classification", "regression", "ranking"}
BatchSizes == {1, 2, 3, DefaultBatchSize}
TargetValues == {1, Unit}                       \* 0.5 and 1.0 when Unit = 2
ClassScores == {<<1, 1>>, <<0, 1>>}             \* per-class scores of one row: a tie (class 0), class 1
RegressionOutputs == {<<1>>, <<Unit>>}          \* the estimated value of one row

Min(a, b) == IF a <= b THEN a ELSE b

SeqsUpTo(S, k) == UNION {[1..m -> S] : m \in 0..k}

FromInt(i) == i * Unit

\* ndarray.astype(int): truncation toward zero.
AstypeInt(x) == IF x >= 0 THEN FromInt(x \div Unit) ELSE FromInt(-((-x) \div Unit))

\* set(...) of the elements of a sequence.
SetOf(s) == {s[k] : k \in DOMAIN s}

----------------------------------------------------------------------------
\* Tabular, as far as the analyzer uses it.

\* A Tabular: one feature column, and a target column when target_column is set.
Tabulars ==
    UNION {
        {[feat |-> f, target_column |-> "", target |-> <<>>] : f \in [1..n -> FeatValues]}
        \cup
        {[feat |-> f, target_column |-> TargetColumn, target |-> t] :
            f \in [1..n -> FeatValues], t \in [1..n -> TargetValues]}
        : n \in 0..MaxRows}

\* X.shape[0]
Shape0(X) == Len(X.feat)

\* The rows of X, each known by its row id.
Rows(X) == [k \in 1..Shape0(X) |-> k - 1]

\* X[i: j] on a sequence of rows.
Slice(rows, i, j) == SubSeq(rows, i + 1, Min(j, Len(rows)))

\* training_data.get_target_column()
get_target_column(X) == X.target

\* training_data.remove_target_column()
remove_target_column(X) == [feat |-> X.feat, target_column |-> "", target |-> <<>>]

\* training_data.to_pd(copy=False) of a Tabular without its target column.
to_pd(X) == [c \in {FeatureColumn} |-> X.feat]

----------------------------------------------------------------------------
\* BiasAnalyzer._predict

RECURSIVE PyRange(_, _, _)
\* range(i, n, step)
PyRange(i, n, step) == IF i >= n THEN <<>> ELSE <<i>> \o PyRange(i + step, n, step)

\* self.predict_function(batch): one output per row of the batch, in order.
CallPredict(pf, batch) == [k \in 1..Len(batch) |-> pf[batch[k]]]

RECURSIVE Concatenate(_)
\* np.concatenate(predictions, axis=0)
Concatenate(arrays) ==
    IF arrays = <<>> THEN <<>> ELSE Head(arrays) \o Concatenate(Tail(arrays))

\* z.flatten()
Flatten(z) == Concatenate(z)

\* np.argmax of one row: the index of the first maximum.
Argmax(row) ==
    CHOOSE j \in 0..(Len(row) - 1) :
        /\ \A k \in 0..(Len(row) - 1) : row[k + 1] <= row[j + 1]
        /\ \A k \in 0..(j - 1) : row[k + 1] < row[j + 1]

\* np.argmax(z, axis=1)
ArgmaxRows(z) == [k \in 1..Len(z) |-> FromInt(Argmax(z[k]))]

\* _predict with the last, partial batch dropped.
predict_dropping_partial_batch(X, bs, pf, md) ==
    LET rows == Rows(X)
        n == Shape0(X)
        starts == PyRange(0, n - (n % bs), bs)
        predictions ==
            [k \in 1..Len(starts) |-> CallPredict(pf, Slice(rows, starts[k], starts[k] + bs))]
    IN  IF predictions = <<>>
        THEN [raised |-> "ValueError", value |-> <<>>]
        ELSE [raised |-> "",
              value |-> IF md = "regression"
                        THEN Flatten(Concatenate(predictions))
                        ELSE ArgmaxRows(Concatenate(predictions))]

\* np.concatenate raises ValueError on an empty list of arrays (no rows).
_predict(X, bs, pf, md) ==
    LET rows == Rows(X)
        n == Shape0(X)
        starts == PyRange(0, n, bs)
        predictions ==
            [k \in 1..Len(starts) |-> CallPredict(pf, Slice(rows, starts[k], starts[k] + bs))]
    IN  IF predictions = <<>>
        THEN [raised |-> "ValueError", value |-> <<>>]
        ELSE [raised |-> "",
              value |-> IF md = "regression"
                        THEN Flatten(Concatenate(predictions))
                        ELSE ArgmaxRows(Concatenate(predictions))]

----------------------------------------------------------------------------
\* BiasAnalyzer.__init__

\* No explain call in progress.  The fields of a call: its arguments (feature_column;
\* feature_value_or_groups as is_list and value or groups; target_value_or_threshold as
\* target), the exception it raised and its message, whether the two groups were
\* resolved, the groups, the metric functions invoked, res, whether res was printed,
\* and the value returned (None, or a mapping).
NoCall ==
    [active |-> FALSE,
     feature_column |-> "", is_list |-> FALSE, value |-> "", groups |-> <<>>,
     target |-> [tag |-> "none", value |-> 0, list |-> <<>>],
     raised |-> "", message |-> "",
     resolved |-> FALSE, group_a |-> <<>>, group_b |-> <<>>, metric_calls |-> <<>>,
     res |-> <<>>, printed |-> FALSE, returned |-> [none |-> TRUE, mapping |-> <<>>]]

\* The model outputs a predict function can give on the rows of X.
PredictFunctions(X, md) ==
    [0..(Shape0(X) - 1) -> IF md = "regression" THEN RegressionOutputs ELSE ClassScores]

RECURSIVE ListOfSet(_)
\* list(a set): its elements once each, here in ascending order.
ListOfSet(S) ==
    IF S = {} THEN <<>>
    ELSE LET m == CHOOSE x \in S : \A y \in S : x <= y IN <<m>> \o ListOfSet(S \ {m})

\* list(set(self.targs.astype(int))) for classification, self.targs for regression.
AllLabels(md, t) ==
    IF md = "classification"
    THEN ListOfSet(SetOf([k \in DOMAIN t |-> AstypeInt(t[k])]))
    ELSE t

\* The constructor failed: no analyzer exists.
Failed(exc) ==
    /\ ctor' = exc
    /\ UNCHANGED <<batch_size, mode, data, predict_function, targs, preds, all_labels, call>>

\* Lines 58-64, with the targets and the feature data settled.
Populate(training_data, pf, md, training_targets, bs) ==
    LET p == _predict(training_data, bs, pf, md) IN
    IF p.raised # ""
    THEN Failed(p.raised)
    ELSE /\ ctor' = "ok"
         /\ batch_size' = bs
         /\ mode' = md
         /\ data' = to_pd(training_data)
         /\ predict_function' = pf
         /\ targs' = training_targets
         /\ preds' = p.value
         /\ all_labels' = AllLabels(md, training_targets)
         /\ UNCHANGED call

\* BiasAnalyzer(training_data, predict_function, mode, training_targets, batch_size=bs).
\* has_pf: predict_function is not None.  has_targets: training_targets is not None.
\* type_check_passes: the outcome of lines 52-54, which test a pandas Series for
\* membership in a list of numpy types.  pandas gives a Series no truth value, so the
\* test raises instead of passing; both outcomes are kept, the passing one being the
\* documented behaviour.
__init__(training_data, has_pf, pf, md, has_targets, training_targets, bs, type_check_passes) ==
    IF md \notin {"classification", "regression"} THEN Failed("AssertionError")
    ELSE IF ~has_pf THEN Failed("AssertionError")
    ELSE IF has_targets THEN Populate(training_data, pf, md, training_targets, bs)
    ELSE IF training_data.target_column = "" THEN Failed("AssertionError")
    ELSE IF ~type_check_passes THEN Failed("ValueError")
    ELSE Populate(remove_target_column(training_data), pf, md,
                  get_target_column(training_data), bs)

\* The constructor called with the batch size bs.
ConstructWith(bs) ==
    /\ ctor = ""
    /\ \E training_data \in Tabulars, md \in Modes, has_pf \in BOOLEAN,
          has_targets \in BOOLEAN, type_check_passes \in BOOLEAN :
           \E pf \in PredictFunctions(training_data, md),
              training_targets \in SeqsUpTo(TargetValues, MaxRows) :
               __init__(training_data, has_pf, pf, md, has_targets, training_targets, bs,
                      type_check_passes)

\* The constructor called without batch_size.
Construct == ConstructWith(DefaultBatchSize)

\* The scenario of four rows: feature column X, X, Y, Y, integer targets 0, 1, 0, 1 and
\* a perfect classifier.
ExampleData == [feat |-> <<"X", "X", "Y", "Y">>, target_column |-> "", target |-> <<>>]
ExampleTargets == <<FromInt(0), FromInt(1), FromInt(0), FromInt(1)>>
ExamplePredict == [i \in 0..3 |-> IF ExampleTargets[i + 1] = FromInt(0) THEN <<1, 0>> ELSE <<0, 1>>]

ConstructExampleWith(bs) ==
    /\ ctor = ""
    /\ __init__(ExampleData, TRUE, ExamplePredict, "classification", TRUE, ExampleTargets,
              bs, TRUE)

ConstructExample == ConstructExampleWith(DefaultBatchSize)

ConstructExampleBatched == \E bs \in BatchSizes : ConstructExampleWith(bs)

\* The constructor called with an explicit batch_size.
ConstructBatched == \E bs \in BatchSizes : ConstructWith(bs)

Init ==
    /\ ctor = ""
    /\ batch_size = 0
    /\ mode = ""
    /\ data = <<>>
    /\ predict_function = <<>>
    /\ targs = <<>>
    /\ preds = <<>>
    /\ all_labels = <<>>
    /\ call = NoCall

----------------------------------------------------------------------------
\* Exact arithmetic of the metric values.
\* A quotient of two small integers is a fraction [num, den].  A value that involves
\* the epsilon 1e-8 = 1/EpsInv is a fraction of two integers written in base EpsInv,
\* [hi, lo] standing for hi * EpsInv + lo.

\* a / b
Div(a, b) == [num |-> a, den |-> b]

\* x - y
Sub(x, y) == [num |-> x.num * y.den - y.num * x.den, den |-> x.den * y.den]

\* q + 1e-8
AddEps(q) == [num |-> [hi |-> q.num, lo |-> q.den], den |-> [hi |-> q.den, lo |-> 0]]

\* q / r, r a value that involves the epsilon
DivByEps(q, r) ==
    [num |-> [hi |-> q.num * r.den.hi, lo |-> q.num * r.den.lo],
     den |-> [hi |-> q.den * r.num.hi, lo |-> q.den * r.num.lo]]

----------------------------------------------------------------------------
\* The metric functions.

\* len([p for p in pred if p == label])
Count(pred, label) == Len(SelectSeq(pred, LAMBDA p : p = label))

\* _dpl with the two proportions added.
dpl_adding_proportions(targ_a, targ_b, pred_a, pred_b, labels) ==
    IF labels # <<>> /\ (Len(pred_a) = 0 \/ Len(pred_b) = 0)
    THEN [raised |-> "ZeroDivisionError", metrics |-> <<>>]
    ELSE [raised |-> "",
          metrics |-> [label \in SetOf(labels) |->
                          Sub(Div(Count(pred_a, label), Len(pred_a)),
                              Div(-Count(pred_b, label), Len(pred_b)))]]

\* _di with the ratio inverted: qa / (qb + 1e-8).
di_inverted(targ_a, targ_b, pred_a, pred_b, labels) ==
    IF labels # <<>> /\ (Len(pred_a) = 0 \/ Len(pred_b) = 0)
    THEN [raised |-> "ZeroDivisionError", metrics |-> <<>>]
    ELSE [raised |-> "",
          metrics |-> [label \in SetOf(labels) |->
                          LET qa == Div(Count(pred_a, label), Len(pred_a))
                              qb == Div(Count(pred_b, label), Len(pred_b))
                          IN  DivByEps(qa, AddEps(qb))]]

\* BiasAnalyzer._dpl: na / len(pred_a) raises ZeroDivisionError on an empty group.
_dpl(targ_a, targ_b, pred_a, pred_b, labels) ==
    IF labels # <<>> /\ (Len(pred_a) = 0 \/ Len(pred_b) = 0)
    THEN [raised |-> "ZeroDivisionError", metrics |-> <<>>]
    ELSE [raised |-> "",
          metrics |-> [label \in SetOf(labels) |->
                          Sub(Div(Count(pred_a, label), Len(pred_a)),
                              Div(Count(pred_b, label), Len(pred_b)))]]

\* BiasAnalyzer._di
_di(targ_a, targ_b, pred_a, pred_b, labels) ==
    IF labels # <<>> /\ (Len(pred_a) = 0 \/ Len(pred_b) = 0)
    THEN [raised |-> "ZeroDivisionError", metrics |-> <<>>]
    ELSE [raised |-> "",
          metrics |-> [label \in SetOf(labels) |->
                          LET qa == Div(Count(pred_a, label), Len(pred_a))
                              qb == Div(Count(pred_b, label), Len(pred_b))
                          IN  DivByEps(qb, AddEps(qa))]]

\* getattr(BiasAnalyzer, f"_{metric_name.lower()}")
Metric(metric_name, targ_a, targ_b, pred_a, pred_b, labels) ==
    IF metric_name = "DPL"
    THEN _dpl(targ_a, targ_b, pred_a, pred_b, labels)
    ELSE _di(targ_a, targ_b, pred_a, pred_b, labels)

MetricNames == <<"DPL", "DI">>

----------------------------------------------------------------------------
\* BiasAnalyzer._get_labels

\* arr[group] with a list of row indices: IndexError on an index out of bounds.
InBounds(arr, group) == \A k \in DOMAIN group : group[k] < Len(arr)
Take(arr, group) == [k \in DOMAIN group |-> arr[group[k] + 1]]

\* _get_labels that keeps the labels of the call in self.all_labels.
get_labels_storing_labels(S, group_a, group_b, labels) ==
    LET ls == IF labels.tag = "none" THEN S.all_labels
              ELSE IF labels.tag = "scalar" THEN <<labels.value>>
              ELSE labels.list
    IN  IF ~(InBounds(S.targs, group_a) /\ InBounds(S.targs, group_b))
        THEN [raised |-> "IndexError", self |-> S,
              targ_a |-> <<>>, targ_b |-> <<>>, pred_a |-> <<>>, pred_b |-> <<>>,
              labels |-> <<>>]
        ELSE [raised |-> "", self |-> [S EXCEPT !.all_labels = ls],
              targ_a |-> Take(S.targs, group_a), targ_b |-> Take(S.targs, group_b),
              pred_a |-> Take(S.preds, group_a), pred_b |-> Take(S.preds, group_b),
              labels |-> ls]

\* The labels argument: None, a scalar (wrapped into a list) or a list.
_get_labels(S, group_a, group_b, labels) ==
    LET ls == IF labels.tag = "none" THEN S.all_labels
              ELSE IF labels.tag = "scalar" THEN <<labels.value>>
              ELSE labels.list
    IN  IF ~(InBounds(S.targs, group_a) /\ InBounds(S.targs, group_b))
        THEN [raised |-> "IndexError", self |-> S,
              targ_a |-> <<>>, targ_b |-> <<>>, pred_a |-> <<>>, pred_b |-> <<>>,
              labels |-> <<>>]
        ELSE [raised |-> "", self |-> S,
              targ_a |-> Take(S.targs, group_a), targ_b |-> Take(S.targs, group_b),
              pred_a |-> Take(S.preds, group_a), pred_b |-> Take(S.preds, group_b),
              labels |-> ls]

----------------------------------------------------------------------------
\* BiasAnalyzer.explain

RECURSIVE BuildIndex(_, _, _)
\* Lines 97-99: feat_value2idx, the observed values in first-seen order (keys) and
\* the row indices of each (idx), from row i on.
BuildIndex(column, i, acc) ==
    IF i >= Len(column) THEN acc
    ELSE LET feat == column[i + 1] IN
         BuildIndex(column, i + 1,
             IF feat \in DOMAIN acc.idx
             THEN [keys |-> acc.keys, idx |-> [acc.idx EXCEPT ![feat] = Append(@, i)]]
             ELSE [keys |-> Append(acc.keys, feat), idx |-> acc.idx @@ (feat :> <<i>>)])

feat_value2idx(column) == BuildIndex(column, 0, [keys |-> <<>>, idx |-> <<>>])

\* feat_value2idx[feat] of a defaultdict(list): the empty list for a missing key.
Lookup(f2i, feat) == IF feat \in DOMAIN f2i.idx THEN f2i.idx[feat] ELSE <<>>

\* The check of lines 100-107 without the loop over the second list.
Known_first_list_only(is_list, value, groups, f2i) ==
    IF is_list
    THEN \A k \in DOMAIN groups[1] : groups[1][k] \in DOMAIN f2i.idx
    ELSE value \in DOMAIN f2i.idx

\* Lines 100-107: every referenced feature value is a key of feat_value2idx.
Known(is_list, value, groups, f2i) ==
    IF is_list
    THEN /\ \A k \in DOMAIN groups[1] : groups[1][k] \in DOMAIN f2i.idx
         /\ \A k \in DOMAIN groups[2] : groups[2][k] \in DOMAIN f2i.idx
    ELSE value \in DOMAIN f2i.idx

RECURSIVE GroupOf(_, _)
\* for feat in feats: group += feat_value2idx[feat]
GroupOf(feats, f2i) ==
    IF feats = <<>> THEN <<>> ELSE Lookup(f2i, Head(feats)) \o GroupOf(Tail(feats), f2i)

RestOf_every_value(v, f2i) == GroupOf(f2i.keys, f2i)

\* Lines 117-119: the rows of every observed value but v, value by value.
RestOf(v, f2i) == GroupOf(SelectSeq(f2i.keys, LAMBDA feat : feat # v), f2i)

RECURSIVE RunMetrics(_, _, _)
\* Lines 124-127 from metric number k on: res so far, the metrics invoked so far.
RunMetrics(k, g, acc) ==
    IF k > Len(MetricNames) THEN acc
    ELSE LET m == Metric(MetricNames[k], g.targ_a, g.targ_b, g.pred_a, g.pred_b, g.labels)
             calls == Append(acc.metric_calls, MetricNames[k])
         IN  IF m.raised # ""
             THEN [raised |-> m.raised, res |-> acc.res, metric_calls |-> calls]
             ELSE RunMetrics(k + 1, g,
                      [raised |-> "", res |-> acc.res @@ (MetricNames[k] :> m.metrics),
                       metric_calls |-> calls])

\* The call record of an explain call that raised before the groups were built.
Rejected(args, message) ==
    [args EXCEPT !.active = TRUE, !.raised = "AssertionError", !.message = message]

\* explain(feature_column, feature_value_or_groups, target_value_or_threshold) on the
\* analyzer S; feature_value_or_groups is the scalar value or the tuple groups.
\* The result is the call (outcome, locals, what was printed and returned) and the
\* analyzer after the call.
explain(S, feature_column, is_list, value, groups, target_value_or_threshold) ==
    LET args == [NoCall EXCEPT !.feature_column = feature_column, !.is_list = is_list,
                               !.value = value, !.groups = groups,
                               !.target = target_value_or_threshold]
    IN
    IF feature_column \notin DOMAIN S.data
    THEN [self |-> S, call |-> Rejected(args, "Feature column does not exist.")]
    ELSE IF is_list /\ Len(groups) # 2
    THEN [self |-> S, call |-> Rejected(args, "either a single value or two lists")]
    ELSE
    LET f2i == feat_value2idx(S.data[feature_column])
    IN
    IF ~Known(is_list, value, groups, f2i)
    THEN [self |-> S, call |-> Rejected(args, "Feature does not exist.")]
    ELSE
    LET group_a == IF is_list THEN GroupOf(groups[1], f2i) ELSE Lookup(f2i, value)
        group_b == IF is_list THEN GroupOf(groups[2], f2i) ELSE RestOf(value, f2i)
        g == _get_labels(S, group_a, group_b, target_value_or_threshold)
        grouped == [args EXCEPT !.active = TRUE, !.resolved = TRUE,
                                !.group_a = group_a, !.group_b = group_b]
    IN
    IF g.raised # ""
    THEN [self |-> g.self, call |-> [grouped EXCEPT !.raised = g.raised]]
    ELSE
    LET m == RunMetrics(1, g, [raised |-> "", res |-> <<>>, metric_calls |-> <<>>])
    IN  [self |-> g.self,
         call |-> [grouped EXCEPT !.raised = m.raised,
                                  !.metric_calls = m.metric_calls,
                                  !.res = m.res,
                                  !.printed = (m.raised = ""),
                                  !.returned = [none |-> TRUE, mapping |-> <<>>]]]

----------------------------------------------------------------------------
\* The calls.

\* The lists of feature values: every short list, one that repeats a value and one of
\* two values.
ValueLists == SeqsUpTo(FeatValues, MaxListLen) \cup {<<"X", "X">>, <<"X", "Y">>}
GroupTuples == SeqsUpTo(ValueLists, 2)
CallColumns == {FeatureColumn, "other"}
LabelArgs ==
    {[tag |-> "none", value |-> 0, list |-> <<>>],
     [tag |-> "scalar", value |-> FromInt(1), list |-> <<>>],
     [tag |-> "list", value |-> 0, list |-> <<FromInt(0), FromInt(1)>>]}

Self == [mode |-> mode, data |-> data, predict_function |-> predict_function,
         targs |-> targs, preds |-> preds, all_labels |-> all_labels]

\* One explain call on the constructed analyzer, up to its return or its exception.
Call(feature_column, is_list, value, groups, target) ==
    /\ LET r == explain(Self, feature_column, is_list, value, groups, target) IN
        /\ call' = r.call
        /\ mode' = r.self.mode
        /\ data' = r.self.data
        /\ predict_function' = r.self.predict_function
        /\ targs' = r.self.targs
        /\ preds' = r.self.preds
        /\ all_labels' = r.self.all_labels
    /\ UNCHANGED <<ctor, batch_size>>

\* explain(feature_column, value, target)
ExplainValue ==
    /\ ctor = "ok"
    /\ ~call.active
    /\ \E feature_column \in CallColumns, value \in FeatValues, target \in LabelArgs :
           Call(feature_column, FALSE, value, <<>>, target)

\* explain(feature_column, groups, target)
ExplainGroups ==
    /\ ctor = "ok"
    /\ ~call.active
    /\ \E feature_column \in CallColumns, groups \in GroupTuples, target \in LabelArgs :
           Call(feature_column, TRUE, "", groups, target)

\* The call is over: its locals and its result are dropped by the caller.
Return ==
    /\ call.active
    /\ call' = NoCall
    /\ UNCHANGED <<ctor, batch_size, mode, data, predict_function, targs, preds, all_labels>>

Next == Construct \/ ConstructExample \/ ExplainValue \/ ExplainGroups \/ Return

Spec == Init /\ [][Next]_vars

NextBatch == ConstructBatched \/ ConstructExampleBatched

\* Construction alone, under every batch size.
SpecBatch == Init /\ [][NextBatch]_vars

----------------------------------------------------------------------------
\* Properties.

\* The feature column of the call, its rows and the values it holds.
Column == data[call.feature_column]
RowIds == 0..(Len(Column) - 1)
Observed == SetOf(Column)
RowsWith(values) == {i \in RowIds : Column[i + 1] \in values}

\* The call went through: it raised nothing.
Succeeded == ctor = "ok" /\ call.active /\ call.raised = ""

\* The targets are one per row of the dataset.
Aligned == ctor = "ok" /\ Len(targs) = Len(data[FeatureColumn])

\* The labels the call evaluates.
EvaluatedLabels ==
    IF call.target.tag = "none" THEN SetOf(all_labels)
    ELSE IF call.target.tag = "scalar" THEN {call.target.value}
    ELSE SetOf(call.target.list)

\* Equality and order of the exact values.  The product of two integers in base EpsInv
\* is written by its three coefficients, each below EpsInv for the counts of the model.
RatEq(x, y) == x.num * y.den = y.num * x.den
BaseMul(a, b) == <<a.hi * b.hi, a.hi * b.lo + a.lo * b.hi, a.lo * b.lo>>
EpsEq(x, y) == BaseMul(x.num, y.den) = BaseMul(y.num, x.den)
BaseLeq(a, b) == a.hi < b.hi \/ (a.hi = b.hi /\ a.lo <= b.lo)
BaseDiff(a, b) ==
    IF b.lo >= a.lo THEN [hi |-> b.hi - a.hi, lo |-> b.lo - a.lo]
    ELSE [hi |-> b.hi - a.hi - 1, lo |-> b.lo + EpsInv - a.lo]
\* |x - 1| <= 1e-8, for x = num / den: |den - num| * EpsInv <= den.
WithinEpsOfOne(x) ==
    LET d == IF BaseLeq(x.num, x.den) THEN BaseDiff(x.num, x.den) ELSE BaseDiff(x.den, x.num)
    IN  d.hi = 0 /\ BaseLeq([hi |-> d.lo, lo |-> 0], x.den)

\* C1: every successful explain call returns the result mapping, whose keys are exactly
\* "DPL" and "DI", each mapped to its per-label scores.
C1_ReturnsMapping ==
    (Aligned /\ Succeeded) =>
        /\ ~call.returned.none
        /\ call.returned.mapping = call.res
        /\ DOMAIN call.res = {"DPL", "DI"}

\* C2: when a resolved group of an explain call has no rows, the call fails with the
\* EmptyGroup error: no result, no raw ZeroDivisionError.
C2_EmptyGroupFails ==
    (Aligned /\ call.active /\ call.resolved
        /\ (call.group_a = <<>> \/ call.group_b = <<>>)) =>
        call.raised = "EmptyGroup"

\* C3: a call that references a feature value the column does not hold fails with the
\* "Feature does not exist." assertion before any group is built and before any metric
\* function is invoked: nothing is computed, printed or returned, wherever the value
\* stands in the lists.
C3_UnknownCase ==
    /\ ctor = "ok"
    /\ call.active
    /\ call.feature_column \in DOMAIN data
    /\ call.is_list => Len(call.groups) = 2
    /\ ~((IF call.is_list
          THEN SetOf(call.groups[1]) \cup SetOf(call.groups[2])
          ELSE {call.value}) \subseteq Observed)

C3_UnknownValueFailsFirst ==
    C3_UnknownCase =>
        /\ call.raised = "AssertionError"
        /\ call.message = "Feature does not exist."
        /\ ~call.resolved
        /\ call.group_a = <<>> /\ call.group_b = <<>>
        /\ call.metric_calls = <<>>
        /\ DOMAIN call.res = {}
        /\ ~call.printed
        /\ call.returned.none

\* The unknown value is the last element of the second list, after known ones.
C3_Witness ==
    /\ C3_UnknownCase
    /\ call.is_list
    /\ call.groups[1] # <<>> /\ SetOf(call.groups[1]) \subseteq Observed
    /\ Len(call.groups[2]) = 2
    /\ call.groups[2][1] \in Observed
    /\ call.groups[2][2] \notin Observed
    /\ call.raised = "AssertionError"

\* C4: in single-value mode group A is exactly the rows whose feature equals the value,
\* group B exactly the rows whose feature differs, the two are disjoint, and together
\* they hold every row 0..n-1 once.
C4_SingleCase == ctor = "ok" /\ call.active /\ ~call.is_list /\ call.resolved

C4_ValueVersusRest ==
    C4_SingleCase =>
        /\ call.value \in Observed
        /\ SetOf(call.group_a) = {i \in RowIds : Column[i + 1] = call.value}
        /\ SetOf(call.group_b) = {i \in RowIds : Column[i + 1] # call.value}
        /\ SetOf(call.group_a) \cap SetOf(call.group_b) = {}
        /\ SetOf(call.group_a) \cup SetOf(call.group_b) = RowIds
        /\ Len(call.group_a) + Len(call.group_b) = Len(Column)

C4_Witness == C4_SingleCase /\ call.group_a # <<>> /\ call.group_b # <<>>

\* C5: in two-list mode group A is the set of rows whose value occurs in the first list
\* and group B the set of rows whose value occurs in the second, each matching row a
\* member once, also when a list repeats a value; disjoint lists give disjoint groups.
C5_TwoListGroups ==
    (Aligned /\ Succeeded /\ call.is_list /\ call.resolved) =>
        /\ SetOf(call.group_a) = RowsWith(SetOf(call.groups[1]))
        /\ SetOf(call.group_b) = RowsWith(SetOf(call.groups[2]))
        /\ Len(call.group_a) = Cardinality(RowsWith(SetOf(call.groups[1])))
        /\ Len(call.group_b) = Cardinality(RowsWith(SetOf(call.groups[2])))
        /\ (SetOf(call.groups[1]) \cap SetOf(call.groups[2]) = {}
                => SetOf(call.group_a) \cap SetOf(call.group_b) = {})

\* C6: whatever the batch size, the cached predictions are the predictions of the rows
\* 0..n-1, one per row, in row order.
RowPrediction(output) == IF mode = "regression" THEN output[1] ELSE FromInt(Argmax(output))

C6_BatchSizeInvariant ==
    ctor = "ok" =>
        preds = [k \in 1..Len(data[FeatureColumn]) |-> RowPrediction(predict_function[k - 1])]

\* Four rows in batches of three: a full batch and a partial one.
C6_Witness == ctor = "ok" /\ batch_size = 3 /\ Len(preds) = 4

\* C7: after every successful construction the predictions, the dataset and the targets
\* have the same length.
C7_LengthsAgree ==
    ctor = "ok" =>
        /\ Len(preds) = Len(data[FeatureColumn])
        /\ Len(targs) = Len(data[FeatureColumn])

\* C8: no explain call, successful or failing, changes the analyzer (dataset, predict
\* function, targets, predictions, all_labels), and the same call made again on the
\* analyzer gives the same groups and the same metric values.
C8_ExplainKeepsState ==
    /\ [][ctor = "ok" => self' = self]_vars
    /\ [](call.active =>
            explain(Self, call.feature_column, call.is_list, call.value, call.groups,
                    call.target).call = call)

\* A successful call with explicit labels, and the analyzer still as constructed.
C8_Witness ==
    /\ Succeeded
    /\ call.target.tag = "scalar"
    /\ call.group_a # <<>> /\ call.group_b # <<>>
    /\ all_labels = AllLabels(mode, targs)
    /\ all_labels # <<call.target.value>>

\* C9: for a constant classifier that predicts label l for every row and a call with
\* both groups non-empty, DPL(l) = 0 and DI(l) = 1 / (1 + 1e-8), within 1e-8 of 1.
ConstantClassifier(l) ==
    /\ mode = "classification"
    /\ \A i \in DOMAIN predict_function : FromInt(Argmax(predict_function[i])) = l

C9_Case(l) ==
    /\ Succeeded
    /\ ConstantClassifier(l)
    /\ call.group_a # <<>> /\ call.group_b # <<>>
    /\ l \in EvaluatedLabels

C9_ConstantClassifier ==
    \A l \in {FromInt(0), FromInt(1)} :
        C9_Case(l) =>
            /\ call.res["DPL"][l].num = 0
            /\ EpsEq(call.res["DI"][l],
                     [num |-> [hi |-> 1, lo |-> 0], den |-> [hi |-> 1, lo |-> 1]])
            /\ WithinEpsOfOne(call.res["DI"][l])

C9_Witness ==
    /\ C9_Case(FromInt(1))
    /\ ~call.is_list
    /\ call.target.tag = "none"

\* C10: for non-empty groups and every evaluated label l, DPL(l) is the proportion of
\* predictions l in group A minus that in group B, and DI(l) = qb / (qa + 1e-8), the
\* proportion of group B over that of group A; on the four-row scenario
\* explain("feat", "X") gives DPL(0) = 0 and DI(0) = 0.5 / (0.5 + 1e-8).
RefCount(group, l) == Cardinality({k \in DOMAIN group : preds[group[k] + 1] = l})

C10_Case == Succeeded /\ call.group_a # <<>> /\ call.group_b # <<>>

C10_ExampleCall ==
    /\ Succeeded
    /\ data[FeatureColumn] = ExampleData.feat
    /\ targs = ExampleTargets
    /\ predict_function = ExamplePredict
    /\ call.feature_column = FeatureColumn
    /\ ~call.is_list /\ call.value = "X"
    /\ FromInt(0) \in EvaluatedLabels

C10_MetricValues ==
    /\ C10_Case =>
        /\ DOMAIN call.res["DPL"] = EvaluatedLabels
        /\ DOMAIN call.res["DI"] = EvaluatedLabels
        /\ \A l \in EvaluatedLabels :
            LET ca == RefCount(call.group_a, l)
                cb == RefCount(call.group_b, l)
                sa == Len(call.group_a)
                sb == Len(call.group_b)
            IN  /\ RatEq(call.res["DPL"][l], [num |-> ca * sb - cb * sa, den |-> sa * sb])
                /\ EpsEq(call.res["DI"][l],
                         [num |-> [hi |-> cb * sa, lo |-> 0],
                          den |-> [hi |-> sb * ca, lo |-> sb * sa]])
    /\ C10_ExampleCall =>
        /\ SetOf(call.group_a) = {0, 1} /\ SetOf(call.group_b) = {2, 3}
        /\ call.res["DPL"][FromInt(0)].num = 0
        /\ EpsEq(call.res["DI"][FromInt(0)],
                 [num |-> [hi |-> 1, lo |-> 0], den |-> [hi |-> 1, lo |-> 2]])

C10_Witness == C10_ExampleCall /\ call.target.tag = "none"
====
